---- MODULE Spec2Model ----
(***************************************************************************)
(* A model of eddy's annulus.py (class ensemble): the staged optimiser     *)
(* _optimize_p0, the constructor and the deprojection of the spectra, the  *)
(* prior / likelihood / log-probability functions, the MCMC driver         *)
(* get_vrot_GP and the line-centre estimators.                             *)
(*                                                                         *)
(* Floating point values are modelled by integers in scaled units; the     *)
(* IEEE specials are the integer codes NaN, PosInf and NegInf.             *)
(***************************************************************************)
EXTENDS Integers, Sequences, FiniteSets, TLC

VARIABLES
    \* ---- _optimize_p0 ----
    opt_pc,      \* position in _optimize_p0
    surface,     \* the log-likelihood of every parameter vector (fixed data)
    opt_Narg,    \* the argument N as passed: an integer or a bool
    opt_N,       \* int(N), the number of iterations of the loop
    opt_i,       \* the loop variable i
    p0,          \* the array bound to the name p0
    nlnL,        \* the local nlnL
    p0_in,       \* value of the argument p0 when the routine was called
    prev_p0,     \* value of p0 before the last minimization
    prev_nlnL,   \* value of nlnL before the last minimization
    last_call,   \* the last minimize call: its kind, the best vector it started
                 \* from, the vrot bounds, and the candidate and flag it gave
    ncalls,      \* number of minimize calls so far
    n_accepted,  \* number of times an "if nlnL_temp < nlnL" body was executed
    \* ---- ensemble.__init__ and deprojected_spectrum ----
    store_pc,    \* "new", "built", or "raised" (ValueError of line 44)
    in_spectra,  \* the argument spectra (rows of intensities)
    in_theta,    \* the argument theta (angles)
    opt_sort,    \* the argument sort_spectra
    opt_remove,  \* the argument remove_empty
    self_theta,  \* self.theta
    self_spectra,\* self.spectra
    spectra_flat,\* self.spectra_flat
    dep_pc,      \* "none", "returned" or "raised": the last deprojected_spectrum
    dep_vrot,    \* its argument vrot
    dep_x,       \* the coordinates it returned
    dep_y,       \* the intensities it returned
    \* ---- _resample_spectra ----
    rs_pc,       \* "none" or "returned": the last _resample_spectra that binned
    rs_resample, \* its argument resample, in quarters
    rs_bins,     \* the local bins
    rs_edges,    \* x_edges, each multiplied by 2 * bins
    rs_x,        \* the coordinates it returned, each multiplied by 4 * bins
    rs_y,        \* the bin means it returned: the sum and the number of points
    \* ---- _lnprior, _lnlikelihood, _lnprobability ----
    call_fn,     \* "none", "lnprior" or "lnprobability": the last call
    call_theta,  \* its argument theta
    call_vref,   \* its argument vref
    call_py,     \* TRUE when theta and vref hold Python floats, not np.float64
    ev_deproj,   \* the call's _get_masked_spectra: "ok" or "raise"
    ev_kernel,   \* the call's gp.compute(x): TRUE when it succeeds
    ev_ll,       \* the call's gp.log_likelihood(y)
    prior_st,    \* "none", "returned" or "raised": the last _lnprior
    prior_val,   \* the value it returned
    lp_st,       \* "none", "returned" or "raised": the last _lnprobability
    lp_val,      \* the value it returned
    lp_evals,    \* number of likelihood evaluations the last call made
    \* ---- get_vrot_GP ----
    gp_pc,       \* position in get_vrot_GP
    gp_p0,       \* p0 before line 119
    gp_nwalkers, \* the argument nwalkers
    gp_nburnin,  \* the argument nburnin
    gp_nsteps,   \* the argument nsteps
    gp_pos,      \* p0 after line 119: one jittered vector per walker
    gp_chain,    \* sampler.chain: per walker, the steps it holds
    gp_samples,  \* samples after line 130
    \* ---- peak_velocities ----
    pk_spectra,  \* self.spectra of the ensemble peak_velocities is called on
    pk_st,       \* "none", "returned" or "raised": the last peak_velocities
    pk_method,   \* its argument method, lower-cased
    pk_fit,      \* per spectrum, the x0 curve_fit returned (NaN: fit failed)
    pk_vmax,     \* the array it returned
    \* ---- _get_gaussian_width ----
    gw_st,       \* "none", "returned" or "raised": the last _get_gaussian_width
    gw_x,        \* its argument x
    gw_y,        \* its argument y
    gw_fit,      \* what curve_fit did in that call
    gw_val       \* the value it returned

optVars == <<opt_pc, surface, opt_Narg, opt_N, opt_i, p0, nlnL, p0_in, prev_p0,
             prev_nlnL, last_call, ncalls, n_accepted>>

resampleVars == <<rs_pc, rs_resample, rs_bins, rs_edges, rs_x, rs_y>>

storeVars == <<store_pc, in_spectra, in_theta, opt_sort, opt_remove,
               self_theta, self_spectra, spectra_flat,
               dep_pc, dep_vrot, dep_x, dep_y, resampleVars>>

probVars == <<call_fn, call_theta, call_vref, call_py, ev_deproj, ev_kernel,
              ev_ll, prior_st, prior_val, lp_st, lp_val, lp_evals>>

gpVars == <<gp_pc, gp_p0, gp_nwalkers, gp_nburnin, gp_nsteps, gp_pos,
            gp_chain, gp_samples>>

peakVars == <<pk_spectra, pk_st, pk_method, pk_fit, pk_vmax>>

widthVars == <<gw_st, gw_x, gw_y, gw_fit, gw_val>>

vars == <<optVars, storeVars, probVars, gpVars, peakVars, widthVars>>

\* ------------------------------------------------------------------------
\* Generic helpers
\* ------------------------------------------------------------------------
Abs(x) == IF x < 0 THEN -x ELSE x

Range(s) == {s[i] : i \in DOMAIN s}

\* Number of occurrences of x in the sequence s.
Count(s, x) == Cardinality({i \in DOMAIN s : s[i] = x})

\* The sequences s and t hold the same elements, each as often.
SameBag(s, t) ==
    /\ Len(s) = Len(t)
    /\ \A x \in Range(s) \cup Range(t) : Count(s, x) = Count(t, x)

NonDecreasing(s) == \A i \in 1..(Len(s) - 1) : s[i] <= s[i + 1]

\* ------------------------------------------------------------------------
\* Floating point values: integers, with three codes for the IEEE specials
\* ------------------------------------------------------------------------
\* np.inf, -np.inf and np.nan.  Every finite value of the model lies strictly
\* between NegInf and PosInf, so < and <= on non-NaN values are the integers'.
PosInf == 1000000
NegInf == -1000000
NaN == 2000000

\* np.isfinite
isfinite(x) == x \notin {NaN, PosInf, NegInf}

\* np.isnan
isnan(x) == x = NaN

\* Unary minus of a float.
FNeg(x) ==
    IF x = NaN THEN NaN
    ELSE IF x = PosInf THEN NegInf
    ELSE IF x = NegInf THEN PosInf
    ELSE 0 - x

\* a < b, a <= b and a > b of two floats: False when either is NaN.
FLt(a, b) == a # NaN /\ b # NaN /\ a < b
FLe(a, b) == a # NaN /\ b # NaN /\ a <= b
FGt(a, b) == a # NaN /\ b # NaN /\ a > b

\* ------------------------------------------------------------------------
\* Bounds of the model
\* ------------------------------------------------------------------------
MaxN == 2          \* largest iteration count N of _optimize_p0

\* The values the components of the optimiser's vectors and the finite
\* log-likelihoods are drawn from.
OptVrots == {1, 2}
OptNoises == {1, 2}
FiniteLLs == {-2, -1, 0}

\* ------------------------------------------------------------------------
\* Negative log-likelihood (lines 234-249, 287-298)
\* ------------------------------------------------------------------------
\* The 4-vectors (vrot, noise, lnsigma, lnrho) the optimiser moves between.
Thetas == {<<v, n, 0, 0>> : v \in OptVrots, n \in OptNoises}
Hypers == {<<n, 0, 0>> : n \in OptNoises}

\* What _lnlikelihood can return: a finite value or -inf.
LLValues == FiniteLLs \cup {NegInf}

\* The sentinel 1e15 of the three wrappers, in the model's integer range.
Penalty == 100000

\* _lnlikelihood(theta) for the data at hand.
lnlikelihood(theta) == surface[theta]

\* _negative_lnlikelihood: nll if np.isfinite(nll) else 1e15.  The wrappers
\* _negative_lnlikelihood_hyper and _negative_lnlikelihood_vrot rebuild theta
\* with np.insert and return the same value.
negative_lnlikelihood(theta) ==
    IF isfinite(FNeg(lnlikelihood(theta)))
    THEN FNeg(lnlikelihood(theta))
    ELSE Penalty

\* ------------------------------------------------------------------------
\* _optimize_p0 (lines 144-216)
\* ------------------------------------------------------------------------
\* bounds = (0.8 * p0[0], 1.2 * p0[0]), in tenths.
VrotBounds(theta) == <<8 * theta[1], 12 * theta[1]>>

\* p0_temp = p0; p0_temp[1:] = res.x      (lines 186-187)
\* p0_temp is the same array as p0, so the slice assignment writes into p0.
PatchHyper(arr, x) == <<arr[1], x[1], x[2], x[3]>>

\* p0_temp = p0; p0_temp[0] = res.x       (lines 198-199)
PatchVrot(arr, x) == <<x, arr[2], arr[3], arr[4]>>

\* if nlnL_temp < nlnL                     (lines 189, 201, 212)
Improves(nlnL_temp, best) == FLt(nlnL_temp, best)

\* One "if res.success:" block after a minimization whose candidate is written
\* through the alias p0_temp (the first two blocks): the array p0 holds the
\* candidate whether or not nlnL is updated.
AliasedBlock(cand, success) ==
    IF success
    THEN /\ p0' = cand
         /\ IF Improves(negative_lnlikelihood(cand), nlnL)
            THEN /\ nlnL' = negative_lnlikelihood(cand)
                 /\ n_accepted' = n_accepted + 1
            ELSE UNCHANGED <<nlnL, n_accepted>>
    ELSE UNCHANGED <<p0, nlnL, n_accepted>>

\* The third block: p0_temp = res.x is a new array, p0 is rebound only on
\* improvement (lines 209-214).
FreshBlock(cand, success) ==
    IF success /\ Improves(negative_lnlikelihood(cand), nlnL)
    THEN /\ p0' = cand
         /\ nlnL' = negative_lnlikelihood(cand)
         /\ n_accepted' = n_accepted + 1
    ELSE UNCHANGED <<p0, nlnL, n_accepted>>

\* Line 173 and the loop test of line 175 for i = 0.
Opt_Begin ==
    /\ opt_pc = "call"
    /\ nlnL' = negative_lnlikelihood(p0)
    /\ opt_pc' = IF opt_N > 0 THEN "hyper" ELSE "done"
    /\ UNCHANGED <<surface, opt_Narg, opt_N, opt_i, p0, p0_in, prev_p0, prev_nlnL,
                   last_call, ncalls, n_accepted>>
    /\ UNCHANGED <<storeVars, probVars, gpVars, peakVars, widthVars>>

\* Lines 177-191: the bounds, then the minimization of the hyperparameters.
Opt_Hyper ==
    /\ opt_pc = "hyper"
    /\ \E x \in Hypers, success \in BOOLEAN :
          /\ last_call' = [kind |-> "hyper", x0 |-> p0,
                           bounds |-> VrotBounds(p0),
                           x |-> PatchHyper(p0, x), success |-> success]
          /\ AliasedBlock(PatchHyper(p0, x), success)
    /\ prev_p0' = p0
    /\ prev_nlnL' = nlnL
    /\ ncalls' = ncalls + 1
    /\ opt_pc' = "vrot"
    /\ UNCHANGED <<surface, opt_Narg, opt_N, opt_i, p0_in>>
    /\ UNCHANGED <<storeVars, probVars, gpVars, peakVars, widthVars>>

\* Lines 193-203: the minimization of vrot.
Opt_Vrot ==
    /\ opt_pc = "vrot"
    /\ \E x \in OptVrots, success \in BOOLEAN :
          /\ last_call' = [kind |-> "vrot", x0 |-> p0,
                           bounds |-> last_call.bounds,
                           x |-> PatchVrot(p0, x), success |-> success]
          /\ AliasedBlock(PatchVrot(p0, x), success)
    /\ prev_p0' = p0
    /\ prev_nlnL' = nlnL
    /\ ncalls' = ncalls + 1
    /\ opt_pc' = "joint"
    /\ UNCHANGED <<surface, opt_Narg, opt_N, opt_i, p0_in>>
    /\ UNCHANGED <<storeVars, probVars, gpVars, peakVars, widthVars>>

\* Lines 205-214: the joint minimization, then the loop test of line 175.
Opt_Joint ==
    /\ opt_pc = "joint"
    /\ \E x \in Thetas, success \in BOOLEAN :
          /\ last_call' = [kind |-> "joint", x0 |-> p0,
                           bounds |-> last_call.bounds,
                           x |-> x, success |-> success]
          /\ FreshBlock(x, success)
    /\ prev_p0' = p0
    /\ prev_nlnL' = nlnL
    /\ ncalls' = ncalls + 1
    /\ opt_i' = opt_i + 1
    /\ opt_pc' = IF opt_i + 1 < opt_N THEN "hyper" ELSE "done"
    /\ UNCHANGED <<surface, opt_Narg, opt_N, p0_in>>
    /\ UNCHANGED <<storeVars, probVars, gpVars, peakVars, widthVars>>

\* The values passed for N: an integer (the default is 1), or the bool that
\* get_vrot_GP passes on from its argument optimize (line 117).
IterationArgs ==
    {[isbool |-> TRUE, b |-> b, n |-> 0] : b \in BOOLEAN}
    \cup {[isbool |-> FALSE, b |-> FALSE, n |-> n] : n \in 0..MaxN}

\* int(N) of line 175: int(True) is 1 and int(False) is 0.
py_int(arg) == IF arg.isbool THEN (IF arg.b THEN 1 ELSE 0) ELSE arg.n

NoCall == [kind |-> "none", x0 |-> <<>>, bounds |-> <<>>,
           x |-> <<>>, success |-> FALSE]

InitOpt ==
    /\ opt_pc = "call"
    /\ surface \in [Thetas -> LLValues]
    /\ opt_Narg \in IterationArgs
    /\ opt_N = py_int(opt_Narg)
    /\ opt_i = 0
    /\ p0 \in Thetas
    /\ p0_in = p0
    /\ prev_p0 = p0
    /\ nlnL = 0
    /\ prev_nlnL = 0
    /\ last_call = NoCall
    /\ ncalls = 0
    /\ n_accepted = 0

\* The state of an optimiser that is never called (the other specifications).
IdleOpt ==
    /\ opt_pc = "idle"
    /\ surface = [t \in Thetas |-> 0]
    /\ opt_Narg = [isbool |-> FALSE, b |-> FALSE, n |-> 0]
    /\ opt_N = 0
    /\ opt_i = 0
    /\ p0 = <<1, 1, 0, 0>>
    /\ p0_in = p0
    /\ prev_p0 = p0
    /\ nlnL = 0
    /\ prev_nlnL = 0
    /\ last_call = NoCall
    /\ ncalls = 0
    /\ n_accepted = 0

\* ------------------------------------------------------------------------
\* ensemble.__init__ (lines 13-51)
\* ------------------------------------------------------------------------
MaxRows == 2       \* largest number of input spectra

\* The velocity axis velax, in channel widths.
Velax == <<-1, 0, 1>>
NChan == Len(Velax)

\* The angles theta are multiples of pi/3: the angle a stands for a * pi / 3
\* radians.  Cos2(a) is twice its cosine.
Angles == {0, 1, 3}
Cos2(a) == IF a = 0 THEN 2 ELSE IF a = 1 THEN 1 ELSE IF a = 2 THEN -1 ELSE -2

\* The input spectra over the velocity axis: an all-zero one, one that is not
\* all-zero and sums to zero, one of negative sum, and three of positive sum.
Rows == {<<0, 0, 0>>, <<1, -1, 0>>, <<-1, 0, 0>>,
         <<0, 1, 0>>, <<1, 2, 1>>, <<0, 0, 1>>}

\* np.argsort(keys): the index arrays that put keys in non-decreasing order.
\* The default sort is not stable, so equal keys come in any order: each
\* result takes, again and again, any of the remaining indices of least key.
RECURSIVE argsort_from(_, _)
argsort_from(keys, left) ==
    IF left = {} THEN {<<>>}
    ELSE UNION {{<<i>> \o rest : rest \in argsort_from(keys, left \ {i})} :
                   i \in {k \in left : \A m \in left : keys[k] <= keys[m]}}

argsort(keys) == argsort_from(keys, DOMAIN keys)

\* arr[idxs] for an index array idxs.
Take(arr, idxs) == [i \in 1..Len(idxs) |-> arr[idxs[i]]]

\* arr[mask] for a boolean array mask of the same length.
RECURSIVE MaskSelect(_, _)
MaskSelect(arr, mask) ==
    IF arr = <<>> THEN <<>>
    ELSE (IF Head(mask) THEN <<Head(arr)>> ELSE <<>>)
         \o MaskSelect(Tail(arr), Tail(mask))

\* np.sum(row)
RECURSIVE RowSum(_)
RowSum(row) == IF row = <<>> THEN 0 ELSE Head(row) + RowSum(Tail(row))

\* spectra.flatten(): the rows one after the other.
RECURSIVE flatten(_)
flatten(rows) == IF rows = <<>> THEN <<>> ELSE Head(rows) \o flatten(Tail(rows))

\* idxs = np.sum(spectra, axis=-1) > 0.0          (line 34)
\* The mask is computed from the argument spectra, not from self.spectra.
EmptyMask(spectra) == [i \in 1..Len(spectra) |-> RowSum(spectra[i]) > 0]

\* self.theta and self.spectra after lines 23-36.
Sorted(arr, sort, idxs) == IF sort THEN Take(arr, idxs) ELSE arr

Pruned(arr, spectra, remove) ==
    IF remove THEN MaskSelect(arr, EmptyMask(spectra)) ELSE arr

\* The constructor, lines 22-44.
Construct ==
    /\ store_pc = "new"
    /\ \E idxs \in argsort(in_theta) :
          /\ self_theta' = Pruned(Sorted(in_theta, opt_sort, idxs),
                                  in_spectra, opt_remove)
          /\ self_spectra' = Pruned(Sorted(in_spectra, opt_sort, idxs),
                                    in_spectra, opt_remove)
    /\ spectra_flat' = flatten(in_spectra)
    /\ store_pc' = IF Len(self_theta') < 1 THEN "raised" ELSE "built"
    /\ UNCHANGED <<in_spectra, in_theta, opt_sort, opt_remove,
                   dep_pc, dep_vrot, dep_x, dep_y, resampleVars>>
    /\ UNCHANGED <<optVars, probVars, gpVars, peakVars, widthVars>>

\* ------------------------------------------------------------------------
\* deprojected_spectrum (lines 413-417, 457-468)
\* ------------------------------------------------------------------------
\* The rotation velocities deprojected_spectrum is called with.
DepVrots == {0, 1, 2}

\* vpnts = self.velax[None, :] - vrot * np.cos(self.theta)[:, None], one row
\* per angle, in half channel widths (twice the coordinate).
ShiftedRow(a, vrot) == [j \in 1..NChan |-> 2 * Velax[j] - vrot * Cos2(a)]
vpnts(thetas, vrot) == flatten([i \in 1..Len(thetas) |-> ShiftedRow(thetas[i], vrot)])

\* deprojected_spectrum(vrot, resample=False): _order_spectra raises when the
\* flattened coordinates and self.spectra_flat differ in length, else both are
\* reordered by np.argsort(vpnts); _resample_spectra returns them as they are.
Deproject ==
    /\ store_pc = "built"
    /\ dep_pc = "none"
    /\ \E vrot \in DepVrots :
          /\ dep_vrot' = vrot
          /\ IF Len(spectra_flat) # Len(vpnts(self_theta, vrot))
             THEN /\ dep_pc' = "raised"
                  /\ dep_x' = <<>>
                  /\ dep_y' = <<>>
             ELSE \E idxs \in argsort(vpnts(self_theta, vrot)) :
                  /\ dep_pc' = "returned"
                  /\ dep_x' = Take(vpnts(self_theta, vrot), idxs)
                  /\ dep_y' = Take(spectra_flat, idxs)
    /\ UNCHANGED <<store_pc, in_spectra, in_theta, opt_sort, opt_remove,
                   self_theta, self_spectra, spectra_flat, resampleVars>>
    /\ UNCHANGED <<optVars, probVars, gpVars, peakVars, widthVars>>

\* ------------------------------------------------------------------------
\* _resample_spectra (lines 465-472) and the velocity range (lines 47-50)
\* ------------------------------------------------------------------------
\* self.channel = np.diff(velax)[0]
channel == Velax[2] - Velax[1]

\* self.velax_range: the axis padded by half a channel at either end, in half
\* channel widths like vpnts.
velax_range == <<2 * Velax[1] - channel, 2 * Velax[NChan] + channel>>

\* The values of the argument resample that request a resampling, in
\* quarters: 0.5, 0.75, 1 (or True), 1.5 and 2.
ResampleQuarters == {2, 3, 4, 6, 8}

\* bins = int((self.velax.size - 1) * resample): int() drops the fraction of
\* the product, which is positive.
resample_bins(r4) == ((NChan - 1) * r4) \div 4

\* x_edges of binned_statistic for an integer bins and a range: bins + 1
\* evenly spaced values from one end of the range to the other.  The k-th is
\* lo + (k - 1) * (hi - lo) / bins; the model holds it multiplied by bins.
bin_edges(bins) ==
    [k \in 1..(bins + 1) |->
        bins * velax_range[1] + (k - 1) * (velax_range[2] - velax_range[1])]

\* The point of coordinate v falls in bin k: the bins are closed on the left
\* and open on the right, the last one closed on both sides.
in_bin(v, k, bins) ==
    /\ bins * v >= bin_edges(bins)[k]
    /\ \/ bins * v < bin_edges(bins)[k + 1]
       \/ k = bins /\ bins * v = bin_edges(bins)[k + 1]

\* statistic='mean' of bin k: the sum of the intensities of its points over
\* their number (nan, 0 / 0, for a bin without points).
bin_mean(vp, sp, k, bins) ==
    LET inside == MaskSelect(sp, [i \in 1..Len(vp) |-> in_bin(vp[i], k, bins)])
    IN  [sum |-> RowSum(inside), n |-> Len(inside)]

\* np.average([x_edges[1:], x_edges[:-1]], axis=0): the model holds the sum
\* of the two edges, twice the average.
bin_centres(edges) == [k \in 1..(Len(edges) - 1) |-> edges[k + 1] + edges[k]]

\* _resample_spectra(vpnts, spnts, resample) for a resample that is not zero,
\* on the ordered cloud deprojected_spectrum got from _order_spectra.
Resample ==
    /\ dep_pc = "returned"
    /\ rs_pc = "none"
    /\ \E r4 \in ResampleQuarters :
          /\ rs_resample' = r4
          /\ rs_bins' = resample_bins(r4)
    /\ rs_edges' = bin_edges(rs_bins')
    /\ rs_x' = bin_centres(rs_edges')
    /\ rs_y' = [k \in 1..rs_bins' |-> bin_mean(dep_x, dep_y, k, rs_bins')]
    /\ rs_pc' = "returned"
    /\ UNCHANGED <<store_pc, in_spectra, in_theta, opt_sort, opt_remove,
                   self_theta, self_spectra, spectra_flat,
                   dep_pc, dep_vrot, dep_x, dep_y>>
    /\ UNCHANGED <<optVars, probVars, gpVars, peakVars, widthVars>>

\* No _resample_spectra has binned anything.
NoResample ==
    /\ rs_resample = 0
    /\ rs_bins = 0
    /\ rs_edges = <<>>
    /\ rs_x = <<>>
    /\ rs_y = <<>>

InitStore ==
    /\ store_pc = "new"
    /\ \E n \in 1..MaxRows :
          /\ in_spectra \in [1..n -> Rows]
          /\ in_theta \in [1..n -> Angles]
    /\ opt_sort \in BOOLEAN
    /\ opt_remove \in BOOLEAN
    /\ self_theta = <<>>
    /\ self_spectra = <<>>
    /\ spectra_flat = <<>>
    /\ dep_pc = "none"
    /\ dep_vrot = 0
    /\ dep_x = <<>>
    /\ dep_y = <<>>
    /\ rs_pc = "none"
    /\ NoResample

IdleStore ==
    /\ store_pc = "idle"
    /\ in_spectra = <<>>
    /\ in_theta = <<>>
    /\ opt_sort = TRUE
    /\ opt_remove = TRUE
    /\ self_theta = <<>>
    /\ self_spectra = <<>>
    /\ spectra_flat = <<>>
    /\ dep_pc = "none"
    /\ dep_vrot = 0
    /\ dep_x = <<>>
    /\ dep_y = <<>>
    /\ rs_pc = "idle"
    /\ NoResample

\* ------------------------------------------------------------------------
\* _lnprior (lines 271-285)
\* ------------------------------------------------------------------------
\* The arguments the prior and the log-probability are called with.
PriorVrots == {NaN, PosInf, -5, -4, 0, 3, 4, 5, 6, 7}
PriorNoises == {NaN, -1, 0, 1}
PriorLnSigmas == {-15, 0, 10}
PriorLnRhos == {-1, 0, 10, 11}
PriorThetas ==
    {<<v, n, s, r>> : v \in PriorVrots, n \in PriorNoises,
                      s \in PriorLnSigmas, r \in PriorLnRhos}
PriorVrefs == {-5, 0, 5}

\* abs(vrot - vref) / vref raises ZeroDivisionError when vref is zero and the
\* operands are Python floats; np.float64 operands give inf or nan instead.
lnprior_raises(theta, vref, py) == py /\ vref = 0

\* abs(vrot - vref) / vref > 0.2                  (line 275)
\*   vrot nan                : nan > 0.2 is False
\*   vref = 0 (np.float64)   : inf > 0.2 unless vrot = 0 (0 / 0 = nan)
\*   vref > 0                : |vrot - vref| > vref / 5
\*   vref < 0                : the quotient is <= 0, never above 0.2
RatioAbove(vrot, vref) ==
    IF vrot = NaN THEN FALSE
    ELSE IF vref = 0 THEN vrot # 0
    ELSE IF vref > 0
         THEN (IF isfinite(vrot) THEN 5 * Abs(vrot - vref) > vref ELSE TRUE)
         ELSE FALSE

\* The value _lnprior returns when it does not raise.
lnprior(theta, vref) ==
    IF RatioAbove(theta[1], vref) THEN NegInf
    ELSE IF FLe(theta[1], 0) THEN NegInf
    ELSE IF FLe(theta[2], 0) THEN NegInf
    ELSE IF ~(FLt(-15, theta[3]) /\ FLt(theta[3], 10)) THEN NegInf
    ELSE IF ~(FLe(0, theta[4]) /\ FLe(theta[4], 10)) THEN NegInf
    ELSE 0

\* Every variable of a call of _lnprobability that _lnprior alone leaves unset.
NoLnProbability ==
    /\ ev_deproj' = "ok"
    /\ ev_kernel' = TRUE
    /\ ev_ll' = 0
    /\ lp_st' = "none"
    /\ lp_val' = 0
    /\ lp_evals' = 0

\* A call of _lnprior(theta, vref).
Call_lnprior ==
    /\ call_fn = "none"
    /\ \E theta \in PriorThetas, vref \in PriorVrefs, py \in BOOLEAN :
          /\ call_fn' = "lnprior"
          /\ call_theta' = theta
          /\ call_vref' = vref
          /\ call_py' = py
          /\ IF lnprior_raises(theta, vref, py)
             THEN prior_st' = "raised" /\ prior_val' = 0
             ELSE prior_st' = "returned" /\ prior_val' = lnprior(theta, vref)
    /\ NoLnProbability
    /\ UNCHANGED <<optVars, storeVars, gpVars, peakVars, widthVars>>

\* ------------------------------------------------------------------------
\* _lnlikelihood and _lnprobability (lines 287-304)
\* ------------------------------------------------------------------------
\* What gp.log_likelihood(y, quiet=True) can return.
EvaluatorLLs == {-3, 0, NaN, PosInf, NegInf}

\* _lnlikelihood without the np.isfinite test of line 298.
lnlikelihood_unchecked(kernel_ok, ll) == IF ~kernel_ok THEN NegInf ELSE ll

\* _lnlikelihood once the masked spectrum is there: -inf when _build_kernel
\* returned None, else ll if np.isfinite(ll) else -inf.
lnlikelihood_value(kernel_ok, ll) ==
    IF ~kernel_ok THEN NegInf
    ELSE IF isfinite(ll) THEN ll ELSE NegInf

\* ~np.isfinite(x): the inversion of a numpy boolean.
NotFinite(x) == ~isfinite(x)

\* The prior of line 302 rejects: _lnprobability returns -inf at line 303.
ShortCircuits(theta, vref) == NotFinite(lnprior(theta, vref))

\* A call of _lnprobability(theta, vref).  _get_masked_spectra raises when
\* _order_spectra does (ev_deproj), gp.compute succeeds or not (ev_kernel) and
\* the evaluator returns ev_ll.
Call_lnprobability ==
    /\ call_fn = "none"
    /\ \E theta \in PriorThetas, vref \in PriorVrefs, py \in BOOLEAN,
          deproj \in {"ok", "raise"}, kernel_ok \in BOOLEAN,
          ll \in EvaluatorLLs :
          /\ call_fn' = "lnprobability"
          /\ call_theta' = theta
          /\ call_vref' = vref
          /\ call_py' = py
          /\ ev_deproj' = deproj
          /\ ev_kernel' = kernel_ok
          /\ ev_ll' = ll
          /\ IF lnprior_raises(theta, vref, py)
             THEN /\ prior_st' = "raised" /\ prior_val' = 0
                  /\ lp_st' = "raised" /\ lp_val' = 0 /\ lp_evals' = 0
             ELSE /\ prior_st' = "returned"
                  /\ prior_val' = lnprior(theta, vref)
                  /\ IF ShortCircuits(theta, vref)
                     THEN lp_st' = "returned" /\ lp_val' = NegInf /\ lp_evals' = 0
                     ELSE /\ lp_evals' = 1
                          /\ IF deproj = "raise"
                             THEN lp_st' = "raised" /\ lp_val' = 0
                             ELSE /\ lp_st' = "returned"
                                  /\ lp_val' = lnlikelihood_value(kernel_ok, ll)
    /\ UNCHANGED <<optVars, storeVars, gpVars, peakVars, widthVars>>

InitProb ==
    /\ call_fn = "none"
    /\ call_theta = <<5, 1, 0, 0>>
    /\ call_vref = 5
    /\ call_py = FALSE
    /\ ev_deproj = "ok"
    /\ ev_kernel = TRUE
    /\ ev_ll = 0
    /\ prior_st = "none"
    /\ prior_val = 0
    /\ lp_st = "none"
    /\ lp_val = 0
    /\ lp_evals = 0

IdleProb ==
    /\ call_fn = "idle"
    /\ call_theta = <<5, 1, 0, 0>>
    /\ call_vref = 5
    /\ call_py = FALSE
    /\ ev_deproj = "ok"
    /\ ev_kernel = TRUE
    /\ ev_ll = 0
    /\ prior_st = "none"
    /\ prior_val = 0
    /\ lp_st = "none"
    /\ lp_val = 0
    /\ lp_evals = 0

\* ------------------------------------------------------------------------
\* get_vrot_GP (lines 55-142) called with p0 given and optimize=False, and
\* _randomize_p0 (lines 227-232)
\* ------------------------------------------------------------------------
MaxWalkers == 2    \* largest nwalkers
MaxBurnin == 2     \* largest nburnin
MaxSteps == 2      \* largest nsteps

\* The starting vectors p0 and the values of 1.0 + scatter * dp0 of a draw.
StartVectors ==
    {<<v, n, s, 1>> : v \in {5, PosInf}, n \in {1, NaN}, s \in {0, NegInf}}
Factors == {0, 1}

\* c * f for a float c and a finite factor f.
FMul(c, f) ==
    IF c = NaN THEN NaN
    ELSE IF isfinite(c) THEN c * f
    ELSE IF f = 0 THEN NaN
    ELSE IF f > 0 THEN c ELSE FNeg(c)

\* c - 1.0 for a float c.
FDec(c) == IF isfinite(c) THEN c - 1 ELSE c

\* One component of _randomize_p0; f is 1.0 + scatter * dp0 of that component.
\*   dp0 = np.where(p0 == 0.0, 1.0, p0)[None, :] * (1.0 + scatter * dp0)
\*   return np.where(p0[None, :] == 0.0, dp0 - 1.0, dp0)
randomize_component(c, f) ==
    IF c = 0 THEN FDec(FMul(1, f)) ELSE FMul(c, f)

\* _randomize_p0 for one walker.
randomize_p0(start, fs) ==
    [k \in 1..Len(start) |-> randomize_component(start[k], fs[k])]

\* np.any(np.isnan(p0))                           (line 120)
AnyNaN(pos) == \E w \in DOMAIN pos : \E k \in DOMAIN pos[w] : isnan(pos[w][k])

\* seq[start:] of Python: a negative start counts from the end, and -0 is 0.
PySliceFrom(seq, start) ==
    IF start < 0
    THEN SubSeq(seq, (IF Len(seq) + start < 0 THEN 0 ELSE Len(seq) + start) + 1,
                Len(seq))
    ELSE SubSeq(seq, (IF start > Len(seq) THEN Len(seq) ELSE start) + 1,
                Len(seq))

\* sampler.chain after run_mcmc(p0, nburnin + nsteps): per walker the steps
\* 1 .. nburnin + nsteps, each tagged <<walker, step>>.
Chain(nwalkers, total) ==
    [w \in 1..nwalkers |-> [k \in 1..total |-> <<w, k>>]]

\* samples = sampler.chain[:, -nsteps:]; samples.reshape(-1, 4)
Samples(chain, nsteps) ==
    flatten([w \in 1..Len(chain) |-> PySliceFrom(chain[w], 0 - nsteps)])

\* Line 119: p0 = ensemble._randomize_p0(p0, nwalkers, scatter).
GP_Randomize ==
    /\ gp_pc = "call"
    /\ gp_pos' \in [1..gp_nwalkers ->
                      {randomize_p0(gp_p0, fs) : fs \in [1..4 -> Factors]}]
    /\ gp_pc' = "jittered"
    /\ UNCHANGED <<gp_p0, gp_nwalkers, gp_nburnin, gp_nsteps, gp_chain,
                   gp_samples>>
    /\ UNCHANGED <<optVars, storeVars, probVars, peakVars, widthVars>>

\* Lines 120-125: the check of the starting positions, then the sampler.
GP_Check ==
    /\ gp_pc = "jittered"
    /\ gp_pc' = IF AnyNaN(gp_pos) THEN "raised" ELSE "sampler"
    /\ UNCHANGED <<gp_p0, gp_nwalkers, gp_nburnin, gp_nsteps, gp_pos,
                   gp_chain, gp_samples>>
    /\ UNCHANGED <<optVars, storeVars, probVars, peakVars, widthVars>>

\* Lines 127-130: the run and the samples kept.
GP_Run ==
    /\ gp_pc = "sampler"
    /\ gp_chain' = Chain(gp_nwalkers, gp_nburnin + gp_nsteps)
    /\ gp_samples' = Samples(gp_chain', gp_nsteps)
    /\ gp_pc' = "done"
    /\ UNCHANGED <<gp_p0, gp_nwalkers, gp_nburnin, gp_nsteps, gp_pos>>
    /\ UNCHANGED <<optVars, storeVars, probVars, peakVars, widthVars>>

InitGP ==
    /\ gp_pc = "call"
    /\ gp_p0 \in StartVectors
    /\ gp_nwalkers \in 1..MaxWalkers
    /\ gp_nburnin \in 0..MaxBurnin
    /\ gp_nsteps \in 0..MaxSteps
    /\ gp_pos = <<>>
    /\ gp_chain = <<>>
    /\ gp_samples = <<>>

IdleGP ==
    /\ gp_pc = "idle"
    /\ gp_p0 = <<5, 1, 0, 1>>
    /\ gp_nwalkers = 1
    /\ gp_nburnin = 0
    /\ gp_nsteps = 0
    /\ gp_pos = <<>>
    /\ gp_chain = <<>>
    /\ gp_samples = <<>>

\* ------------------------------------------------------------------------
\* peak_velocities and _get_gaussian_center (lines 364-370, 426-455)
\* ------------------------------------------------------------------------
MaxPeakRows == 2   \* largest number of spectra of the ensemble

\* A noiseless line profile centred on the channel of velocity c, sampled on
\* Velax: the intensity falls with the distance from the centre.
LineCentres == {-1, 0, 1}
LineProfile(c) == [j \in 1..NChan |-> 4 - 2 * Abs(Velax[j] - c)]

\* What curve_fit can give for x0: a centre, or nan when the fit failed.
FittedCentres == {NaN, -1, 0, 1}

\* np.argmax(y): the first index of the largest value.
argmax(y) ==
    CHOOSE i \in 1..Len(y) :
        /\ \A j \in 1..Len(y) : y[j] <= y[i]
        /\ \A j \in 1..(i - 1) : y[j] < y[i]

\* abs(x) of a finite float.
FAbs(x) == IF x < 0 THEN 0 - x ELSE x

\* _get_gaussian_center(x, y), x0 being _fit_gaussian(x, y)[0].
get_gaussian_center(x, y, x0) ==
    IF isfinite(x0) THEN FAbs(x0) ELSE x[argmax(y)]

\* np.take(self.velax, np.argmax(self.spectra, axis=1))
peak_max(spectra) == [i \in 1..Len(spectra) |-> Velax[argmax(spectra[i])]]

\* [ensemble._get_gaussian_center(self.velax, spectrum) for spectrum in ...]
peak_gaussian(spectra, fit) ==
    [i \in 1..Len(spectra) |-> get_gaussian_center(Velax, spectra[i], fit[i])]

\* peak_velocities(method).  The centroids of bettermoments' quadratic are
\* whatever that library returns.
PeakVelocities ==
    /\ pk_st = "none"
    /\ \E method \in {"max", "quadratic", "gaussian", "other"} :
          /\ pk_method' = method
          /\ IF method = "max"
             THEN /\ pk_vmax' = peak_max(pk_spectra)
                  /\ pk_st' = "returned"
                  /\ UNCHANGED pk_fit
             ELSE IF method = "quadratic"
             THEN /\ pk_vmax' \in [1..Len(pk_spectra) -> LineCentres]
                  /\ pk_st' = "returned"
                  /\ UNCHANGED pk_fit
             ELSE IF method = "gaussian"
             THEN /\ pk_fit' \in [1..Len(pk_spectra) -> FittedCentres]
                  /\ pk_vmax' = peak_gaussian(pk_spectra, pk_fit')
                  /\ pk_st' = "returned"
             ELSE /\ pk_st' = "raised"
                  /\ UNCHANGED <<pk_fit, pk_vmax>>
    /\ UNCHANGED pk_spectra
    /\ UNCHANGED <<optVars, storeVars, probVars, gpVars, widthVars>>

InitPeak ==
    /\ \E n \in 1..MaxPeakRows :
          pk_spectra \in [1..n -> {LineProfile(c) : c \in LineCentres}]
    /\ pk_st = "none"
    /\ pk_method = "none"
    /\ pk_fit = <<>>
    /\ pk_vmax = <<>>

IdlePeak ==
    /\ pk_spectra = <<>>
    /\ pk_st = "idle"
    /\ pk_method = "none"
    /\ pk_fit = <<>>
    /\ pk_vmax = <<>>

\* ------------------------------------------------------------------------
\* _get_p0_gaussian, _fit_gaussian and _get_gaussian_width (lines 331-362)
\* ------------------------------------------------------------------------
\* The default of the argument fill_value, 1e50: a finite value larger than
\* every width a fit of the model gives.
fill_value == 500000

\* What curve_fit can give for dV: a width of either sign, zero, or a value
\* that is not finite.
FittedWidths == {NaN, PosInf, NegInf, -2, -1, 0, 1, 2}

\* What curve_fit can give for Tb.
FittedPeaks == {NaN, 4}

\* What a call of curve_fit does: it raises (RuntimeError when it does not
\* converge, TypeError or ValueError on improper input), or it returns popt.
FitResults ==
    {[raised |-> TRUE, popt |-> <<>>]}
    \cup {[raised |-> FALSE, popt |-> <<x0, dV, Tb>>] :
             x0 \in FittedCentres, dV \in FittedWidths, Tb \in FittedPeaks}

\* _get_p0_gaussian(x, y) raises ValueError: the sizes differ (line 334), or
\* np.max(x) is taken of an empty array (line 336).
get_p0_gaussian_raises(x, y) == Len(x) # Len(y) \/ Len(x) = 0

\* An exception is raised between "try" and "except": by the evaluation of
\* the argument p0 of curve_fit, or else by curve_fit itself.
raised_in_try(x, y, cf) == get_p0_gaussian_raises(x, y) \/ cf.raised

\* _fit_gaussian(x, y): popt, or three nan when the try block raised.
fit_gaussian(x, y, cf) ==
    IF raised_in_try(x, y, cf) THEN <<NaN, NaN, NaN>> ELSE cf.popt

\* _get_gaussian_width without the test of line 360.
get_gaussian_width_unchecked(x, y, cf) ==
    LET dV == fit_gaussian(x, y, cf)[2]
    IN  IF dV = NaN THEN NaN
        ELSE IF dV \in {PosInf, NegInf} THEN PosInf
        ELSE FAbs(dV)

\* _get_gaussian_width(x, y), lines 359-362.
get_gaussian_width(x, y, cf) ==
    LET dV == fit_gaussian(x, y, cf)[2]
    IN  IF isfinite(dV) THEN FAbs(dV) ELSE fill_value

\* A call _get_gaussian_width(x, y).  No statement of lines 357-362 is outside
\* the try block of _fit_gaussian and able to raise, so the call returns.
GetGaussianWidth ==
    /\ gw_st = "none"
    /\ \E cf \in FitResults :
          /\ gw_fit' = cf
          /\ gw_val' = get_gaussian_width(gw_x, gw_y, cf)
    /\ gw_st' = "returned"
    /\ UNCHANGED <<gw_x, gw_y>>
    /\ UNCHANGED <<optVars, storeVars, probVars, gpVars, peakVars>>

\* The arguments: the first channels of the velocity axis and the first
\* values of a line profile, of sizes that agree or not.
InitWidth ==
    /\ gw_st = "none"
    /\ \E nx \in 0..NChan, ny \in 0..NChan, c \in LineCentres :
          /\ gw_x = SubSeq(Velax, 1, nx)
          /\ gw_y = SubSeq(LineProfile(c), 1, ny)
    /\ gw_fit = [raised |-> FALSE, popt |-> <<>>]
    /\ gw_val = 0

IdleWidth ==
    /\ gw_st = "idle"
    /\ gw_x = <<>>
    /\ gw_y = <<>>
    /\ gw_fit = [raised |-> FALSE, popt |-> <<>>]
    /\ gw_val = 0

\* ------------------------------------------------------------------------
\* The specifications: one per routine, the others idle
\* ------------------------------------------------------------------------
NextOpt ==
    \/ Opt_Begin
    \/ Opt_Hyper
    \/ Opt_Vrot
    \/ Opt_Joint

StartOpt == InitOpt /\ IdleStore /\ IdleProb /\ IdleGP /\ IdlePeak /\ IdleWidth

SpecOpt == StartOpt /\ [][NextOpt]_vars

NextStore ==
    \/ Construct
    \/ Deproject
    \/ Resample

StartStore == IdleOpt /\ InitStore /\ IdleProb /\ IdleGP /\ IdlePeak /\ IdleWidth

SpecStore == StartStore /\ [][NextStore]_vars

NextProb ==
    \/ Call_lnprior
    \/ Call_lnprobability

StartProb == IdleOpt /\ IdleStore /\ InitProb /\ IdleGP /\ IdlePeak /\ IdleWidth

SpecProb == StartProb /\ [][NextProb]_vars

NextGP ==
    \/ GP_Randomize
    \/ GP_Check
    \/ GP_Run

StartGP == IdleOpt /\ IdleStore /\ IdleProb /\ InitGP /\ IdlePeak /\ IdleWidth

SpecGP == StartGP /\ [][NextGP]_vars

NextPeak == PeakVelocities

StartPeak == IdleOpt /\ IdleStore /\ IdleProb /\ IdleGP /\ InitPeak /\ IdleWidth

SpecPeak == StartPeak /\ [][NextPeak]_vars

NextWidth == GetGaussianWidth

StartWidth ==
    IdleOpt /\ IdleStore /\ IdleProb /\ IdleGP /\ IdlePeak /\ InitWidth

SpecWidth == StartWidth /\ [][NextWidth]_vars

\* Any of the routines, from the state its specification starts in.
Init ==
    \/ StartOpt \/ StartStore \/ StartProb \/ StartGP \/ StartPeak
    \/ StartWidth

Next ==
    \/ NextOpt \/ NextStore \/ NextProb \/ NextGP \/ NextPeak
    \/ NextWidth

Spec == Init /\ [][Next]_vars

\* ------------------------------------------------------------------------
\* Claims about the constructor and deprojected_spectrum
\* ------------------------------------------------------------------------
\* The constructor succeeded with the default options.
BuiltWithDefaults == store_pc = "built" /\ opt_sort /\ opt_remove

AllZero(row) == \A j \in DOMAIN row : row[j] = 0

\* The (angle, spectrum) pairs of two arrays of the same length.
Pairs(thetas, spectra) == [i \in 1..Len(thetas) |-> <<thetas[i], spectra[i]>>]

\* The indices of seq, in order, as a boolean array: keep[i] says which stay.
Keep(seq, keep) == MaskSelect(seq, [i \in 1..Len(seq) |-> keep[i]])

\* C3: after a successful construction with the default options the angle
\* array is non-decreasing, angles and spectra have the same length, and that
\* length is the number of input rows whose intensity sum is non-zero.
C3_SortedAndCounted ==
    BuiltWithDefaults =>
        /\ NonDecreasing(self_theta)
        /\ Len(self_theta) = Len(self_spectra)
        /\ Len(self_theta) =
              Cardinality({i \in DOMAIN in_spectra : RowSum(in_spectra[i]) # 0})

\* C4: after a successful construction with the default options no retained
\* spectrum is all-zero, and the retained (angle, spectrum) pairs are exactly
\* the input pairs whose spectrum is not all-zero.
C4_RetainsExactlyNonEmpty ==
    BuiltWithDefaults =>
        /\ \A i \in DOMAIN self_spectra : ~AllZero(self_spectra[i])
        /\ SameBag(Pairs(self_theta, self_spectra),
                   Keep(Pairs(in_theta, in_spectra),
                        [i \in DOMAIN in_spectra |-> ~AllZero(in_spectra[i])]))

\* The point cloud of the retained spectra: every channel of every retained
\* spectrum with its own shifted coordinate.
ExpectedCloud(vrot) ==
    flatten([i \in 1..Len(self_theta) |->
                [j \in 1..NChan |->
                    <<ShiftedRow(self_theta[i], vrot)[j], self_spectra[i][j]>>]])

\* C5: on every constructed ensemble deprojected_spectrum(vrot,
\* resample=False) returns without error a cloud sorted ascending by
\* coordinate that is exactly the pairs (shifted coordinate, intensity) of the
\* retained spectra; for a single spectrum and vrot = 0 it is (velax,
\* spectrum).
C5_CloudPairsOwnIntensity ==
    dep_pc # "none" =>
        /\ dep_pc = "returned"
        /\ NonDecreasing(dep_x)
        /\ SameBag([k \in 1..Len(dep_x) |-> <<dep_x[k], dep_y[k]>>],
                   ExpectedCloud(dep_vrot))
        /\ (Len(self_theta) = 1 /\ dep_vrot = 0) =>
               /\ dep_x = [j \in 1..NChan |-> 2 * Velax[j]]
               /\ dep_y = self_spectra[1]

\* ------------------------------------------------------------------------
\* Claims about _optimize_p0
\* ------------------------------------------------------------------------
\* The candidate of the last minimization is accepted by the claim's rule:
\* the minimizer reported success and the candidate's negative
\* log-likelihood is strictly below the best before that minimization.
LastAccepted ==
    /\ last_call.success
    /\ negative_lnlikelihood(last_call.x) < prev_nlnL

\* C1: after each minimization the candidate is accepted only if the
\* minimizer reports success and its negative log-likelihood is strictly lower
\* than the current best; in every other case the current best vector is
\* exactly what it was before that minimization, and if no step is ever
\* accepted the routine returns a vector equal to its input.
C1_RejectedStepKeepsBest ==
    /\ (last_call.kind # "none" /\ ~LastAccepted) => p0 = prev_p0
    /\ (opt_pc = "done" /\ n_accepted = 0) => p0 = p0_in

\* C2: the negative log-likelihood of the returned vector is no greater than
\* that of the initial p0, and the tracked nlnL always equals the negative
\* log-likelihood of the current best vector.
C2_MonotoneNlnL ==
    /\ opt_pc = "done" =>
           negative_lnlikelihood(p0) <= negative_lnlikelihood(p0_in)
    /\ opt_pc \in {"hyper", "vrot", "joint", "done"} =>
           nlnL = negative_lnlikelihood(p0)

\* The current best vector by the rule of C1, when the call before started
\* from the best: the input before the first call, the candidate of the last
\* call when it was accepted, and else the vector the last call started from.
CurrentBest ==
    IF last_call.kind = "none" THEN p0_in
    ELSE IF LastAccepted THEN last_call.x
    ELSE last_call.x0

\* The k-th minimize call of the routine: the hyperparameters, then vrot,
\* then all four parameters.
CallKind(k) ==
    IF k % 3 = 1 THEN "hyper" ELSE IF k % 3 = 2 THEN "vrot" ELSE "joint"

\* A step of the routine that issues a minimize call.
IssuesCall == ncalls' # ncalls

\* The calls come one at a time in the fixed order, never more than 3 * N,
\* and the routine is done after exactly 3 * N; N is 1 for optimize=True.
CountAndOrder ==
    /\ ncalls' <= 3 * opt_N
    /\ opt_pc' = "done" => ncalls' = 3 * opt_N
    /\ (opt_Narg.isbool /\ opt_Narg.b) => opt_N = 1
    /\ IssuesCall =>
          /\ ncalls' = ncalls + 1
          /\ last_call'.kind = CallKind(ncalls')

\* A call starts from the current best vector, and the bounds of a vrot-only
\* call are 0.8 and 1.2 times the current best vrot.
StartsFromBest ==
    IssuesCall =>
        /\ last_call'.x0 = CurrentBest
        /\ last_call'.kind = "vrot" =>
               last_call'.bounds = VrotBounds(CurrentBest)

\* C13: _optimize_p0 ends after exactly 3 * N minimize calls, issued per
\* iteration in the order hyperparameters-only, vrot-only (bounds 0.8 and 1.2
\* times the current best vrot), all four jointly; each call starts from the
\* current best vector as the accept/reject decision of the call before left
\* it; optimize=True means N = 1.
C13_ThreeCallsFromBest == [][CountAndOrder /\ StartsFromBest]_vars

\* The number and the order of the calls alone, which hold.
CountAndOrderHold == [][CountAndOrder]_vars


\* ------------------------------------------------------------------------
\* Claims about _lnprior and _lnprobability
\* ------------------------------------------------------------------------
\* |vrot - vref| / vref <= 0.2 over the reals: there is no quotient for
\* vref = 0, and for vref < 0 the quotient is never positive.
QuotientWithin(vrot, vref) ==
    /\ vrot # NaN
    /\ vref # 0
    /\ vref > 0 => (isfinite(vrot) /\ 5 * Abs(vrot - vref) <= vref)

\* The constraints under which the prior is said to return 0.0.
PriorConstraints(theta, vref) ==
    /\ QuotientWithin(theta[1], vref)
    /\ theta[1] # NaN /\ theta[1] > 0
    /\ theta[2] # NaN /\ theta[2] > 0
    /\ -15 < theta[3] /\ theta[3] < 10
    /\ 0 <= theta[4] /\ theta[4] <= 10

\* C6: for every theta and every vref, zero and negative ones included,
\* _lnprior returns 0.0 or -inf and nothing else, without an exception, and
\* 0.0 exactly when |vrot - vref| / vref <= 0.2, vrot > 0, noise > 0,
\* -15 < lnsigma < 10 and 0 <= lnrho <= 10.
C6_PriorZeroOrNegInf ==
    prior_st # "none" =>
        /\ prior_st = "returned"
        /\ prior_val \in {0, NegInf}
        /\ prior_val = 0 <=> PriorConstraints(call_theta, call_vref)

\* C10: _lnprobability returns -inf without a likelihood evaluation when the
\* prior rejects theta; otherwise it returns prior + likelihood, the
\* likelihood being -inf when the kernel could not be built or the
\* evaluator's result is not finite; it never returns NaN or +inf.
C10_LnProbability ==
    (call_fn = "lnprobability" /\ prior_st = "returned") =>
        /\ prior_val = NegInf =>
              lp_st = "returned" /\ lp_val = NegInf /\ lp_evals = 0
        /\ (prior_val # NegInf /\ ev_deproj = "ok") =>
              /\ lp_st = "returned"
              /\ lp_evals = 1
              /\ lp_val = IF ev_kernel /\ ev_ll \notin {NaN, PosInf, NegInf}
                          THEN prior_val + ev_ll
                          ELSE NegInf
        /\ lp_st = "returned" => lp_val \notin {NaN, PosInf}

\* The prior accepts, the kernel is built and the evaluator returns NaN: the
\* log-probability is -inf after one likelihood evaluation.
C10_Witness ==
    /\ call_fn = "lnprobability"
    /\ prior_st = "returned" /\ prior_val = 0
    /\ ev_deproj = "ok" /\ ev_kernel /\ ev_ll = NaN
    /\ lp_st = "returned" /\ lp_val = NegInf /\ lp_evals = 1

\* ------------------------------------------------------------------------
\* Claims about get_vrot_GP
\* ------------------------------------------------------------------------
AllFinite(pos) ==
    \A w \in DOMAIN pos : \A k \in DOMAIN pos[w] : isfinite(pos[w][k])

\* C7: get_vrot_GP fails before the sampler is created whenever a component
\* of a jittered starting position is NaN, +inf or -inf; the sampler is only
\* started from an all-finite array.
C7_SamplerStartsFinite ==
    /\ gp_pc \in {"sampler", "done"} => AllFinite(gp_pos)
    /\ (gp_pc \in {"raised", "sampler", "done"} /\ ~AllFinite(gp_pos)) =>
           gp_pc = "raised"

\* C8: the samples reduced to percentiles are exactly the last nsteps steps of
\* every walker: no burn-in step is kept, and there are nwalkers * nsteps rows.
C8_KeepsLastNsteps ==
    gp_pc = "done" =>
        /\ gp_samples =
              flatten([w \in 1..gp_nwalkers |->
                          [k \in 1..gp_nsteps |-> <<w, gp_nburnin + k>>]])
        /\ Len(gp_samples) = gp_nwalkers * gp_nsteps
        /\ \A n \in DOMAIN gp_samples : gp_samples[n][2] > gp_nburnin

\* ------------------------------------------------------------------------
\* Claims about peak_velocities
\* ------------------------------------------------------------------------
\* a and b agree to within half a channel width.
WithinHalfChannel(a, b) == 2 * Abs(a - b) <= Velax[2] - Velax[1]

\* C9: peak_velocities('gaussian') returns for each spectrum the fitted
\* centre x0 itself when the fit gives a finite centre, of either sign, and
\* the velocity of the maximum sample otherwise; when the fit finds the centre
\* of a noiseless line it agrees with the 'max' method to within half a
\* channel.
C9_GaussianCentre ==
    (pk_st = "returned" /\ pk_method = "gaussian") =>
        \A i \in DOMAIN pk_spectra :
            /\ pk_vmax[i] = IF pk_fit[i] \notin {NaN, PosInf, NegInf}
                            THEN pk_fit[i]
                            ELSE Velax[argmax(pk_spectra[i])]
            /\ pk_fit[i] = peak_max(pk_spectra)[i] =>
                   WithinHalfChannel(pk_vmax[i], peak_max(pk_spectra)[i])

\* ------------------------------------------------------------------------
\* Claims about _get_gaussian_width
\* ------------------------------------------------------------------------
\* The fit of the last _get_gaussian_width failed: the try block raised (the
\* sizes of x and y differ, or curve_fit raised).
FitFailed == raised_in_try(gw_x, gw_y, gw_fit)

\* The width curve_fit returned in the last call.
FittedWidth == gw_fit.popt[2]

\* C11: _get_gaussian_width never raises and never returns NaN: when the fit
\* fails (curve_fit raises, or x and y differ in size) or gives a width that
\* is not finite, it returns the sentinel 1e50, and otherwise the absolute
\* value of the fitted width.
C11_WidthOrSentinel ==
    gw_st \notin {"none", "idle"} =>
        /\ gw_st = "returned"
        /\ ~isnan(gw_val)
        /\ IF FitFailed THEN gw_val = fill_value
           ELSE IF ~isfinite(FittedWidth) THEN gw_val = fill_value
           ELSE /\ gw_val = Abs(FittedWidth)
                /\ gw_val >= 0

\* A call on x and y of different sizes returned the sentinel.
C11_Witness ==
    /\ gw_st = "returned"
    /\ Len(gw_x) # Len(gw_y)
    /\ ~gw_fit.raised
    /\ gw_val = fill_value

\* ------------------------------------------------------------------------
\* Claims about _resample_spectra
\* ------------------------------------------------------------------------
\* round(q / 4), halves going to the even neighbour.
RoundQuarters(q) ==
    LET whole == q \div 4
        part == q % 4
    IN  IF part < 2 THEN whole
        ELSE IF part > 2 THEN whole + 1
        ELSE IF whole % 2 = 0 THEN whole ELSE whole + 1

\* The edges of the channels of the velocity axis: half a channel either side
\* of every velocity, in the units of rs_edges.
ChannelEdges ==
    [k \in 1..(NChan + 1) |->
        rs_bins * (IF k <= NChan THEN 2 * Velax[k] - channel
                   ELSE 2 * Velax[NChan] + channel)]

\* The bins have the same width and span the padded range.
EqualWidthOverRange ==
    /\ Len(rs_edges) = rs_bins + 1
    /\ rs_edges[1] = rs_bins * velax_range[1]
    /\ rs_edges[Len(rs_edges)] = rs_bins * velax_range[2]
    /\ \A k \in 1..(Len(rs_edges) - 1) :
          rs_edges[k + 1] - rs_edges[k] = velax_range[2] - velax_range[1]

\* The coordinates returned are the centres of the bins.
CentresReturned ==
    /\ Len(rs_x) = rs_bins
    /\ \A k \in DOMAIN rs_x : rs_x[k] = rs_edges[k] + rs_edges[k + 1]

\* C12: resampling with factor r on N channels bins the cloud into
\* round((N - 1) * r) bins of equal width that span the velocity range padded
\* by half a channel, and returns the bin centres; for r = 1 the bin edges
\* are the edges of the original channels.
C12_ResampleBins ==
    rs_pc = "returned" =>
        /\ rs_bins = RoundQuarters((NChan - 1) * rs_resample)
        /\ EqualWidthOverRange
        /\ CentresReturned
        /\ rs_resample = 4 => rs_edges = ChannelEdges

====
